---- MODULE Spec2Model ----
(***************************************************************************)
(* Climate Scheduler (custom_components/climate_scheduler): the schedule   *)
(* resolution and manual-override arbitration of ClimateSchedulerEntity.   *)
(*                                                                         *)
(* Conventions of the translation                                          *)
(*   - a Python optional is a sequence: <<>> is None, <<x>> is the value x *)
(*   - a Python dict is a function; DictGet is dict.get(key, default)      *)
(*   - a "HH:MM" string is the sequence of its five characters, a digit    *)
(*     being itself and ':' being COLON, so that the string order used by  *)
(*     sorted() and the clock value produced by strptime are computed      *)
(*     separately                                                          *)
(*   - the wall clock is counted in minutes since Monday 00:00             *)
(***************************************************************************)
EXTENDS Integers, Sequences, FiniteSets, Bags, TLC

VARIABLES
    options,              \* entry.options, the dict the host stores for the entry
    schedules,            \* self._schedules
    presets,              \* self._presets
    climate_entity,       \* self._climate_entity (optional)
    target_temperature,   \* self._attr_target_temperature (optional)
    hvac_mode,            \* self._attr_hvac_mode
    preset_mode,          \* self._attr_preset_mode
    last_preset_change,   \* self._last_preset_change (optional)
    listening,            \* self._unsubscribe_time_listener is set
    now,                  \* datetime.now(), minutes since Monday 00:00
    uptime,               \* minutes elapsed since construction
    active_preset,        \* local active_preset of the last _async_check_schedule
    attrs,                \* last value returned by extra_state_attributes
    calls,                \* hass.services.async_call requests made by the last step
    apply_error,          \* the last step logged "Failed to apply settings"
    last_op,              \* the step taken last (reset when the clock moves)
    manual_at,            \* time of the last user call of async_set_preset_mode
                          \* that passed the preset check (optional)
    manual_rearmed,       \* that call came less than OVERRIDE_MINUTES after the
                          \* one before it
    inflight,             \* the handlers suspended at an await (a bag): the
                          \* handler and the await
    base                  \* fields kept aside (optional): those before a pair of
                          \* handlers began, or those of a removed entity

vars == <<options, schedules, presets, climate_entity, target_temperature, hvac_mode,
          preset_mode, last_preset_change, listening, now, uptime,
          active_preset, attrs, calls, apply_error, last_op, manual_at,
          manual_rearmed, inflight, base>>

config == <<options, schedules, presets, climate_entity>>
entity == <<target_temperature, hvac_mode, preset_mode, last_preset_change>>

----------------------------------------------------------------------------
(* Python values *)

None == <<>>

Some(x) == <<x>>

DictGet(d, k, default) == IF k \in DOMAIN d THEN d[k] ELSE default

EmptyDict == <<>>

\* no handler is suspended
NoTasks == EmptyBag

----------------------------------------------------------------------------
(* const.py *)

SCHEDULE_WEEKDAY == "weekday"

SCHEDULE_WEEKEND == "weekend"

PRESET_HOME == "home"

PRESET_AWAY == "away"

PRESET_SLEEP == "sleep"

PRESET_VACATION == "vacation"

HVAC_HEAT_COOL == "heat_cool"

attr_preset_modes == {PRESET_HOME, PRESET_AWAY, PRESET_SLEEP, PRESET_VACATION}

----------------------------------------------------------------------------
(* "HH:MM" strings and the clock *)

COLON == 10

HHMM(h, m) == <<h \div 10, h % 10, COLON, m \div 10, m % 10>>

\* str.__lt__: lexicographic order on the characters, a proper prefix first
RECURSIVE StrLess(_, _)
StrLess(a, b) ==
    IF b = <<>> THEN FALSE
    ELSE IF a = <<>> THEN TRUE
    ELSE IF Head(a) # Head(b) THEN Head(a) < Head(b)
    ELSE StrLess(Tail(a), Tail(b))

\* datetime.strptime(s, "%H:%M").time(), as minutes since midnight
Strptime(s) == (s[1] * 10 + s[2]) * 60 + (s[4] * 10 + s[5])

MinutesPerDay == 1440

\* datetime.now().time(), as minutes since midnight
CurrentTime(t) == t % MinutesPerDay

\* datetime.now().weekday(): Monday is 0
CurrentDay(t) == (t \div MinutesPerDay) % 7

----------------------------------------------------------------------------
(* Schedule resolution *)

\* the key of sorted(): x.get("time", "00:00")
SlotKey(slot) == DictGet(slot, "time", HHMM(0, 0))

\* slot.get("preset") and slot.get("time")
SlotGet(slot, k) == IF k \in DOMAIN slot THEN Some(slot[k]) ELSE None

\* the sort is not stable: x goes in front of an element with an equal key
RECURSIVE InsertSlot_Unstable(_, _)
InsertSlot_Unstable(x, s) ==
    IF s = <<>> THEN <<x>>
    ELSE IF ~StrLess(SlotKey(Head(s)), SlotKey(x)) THEN <<x>> \o s
    ELSE <<Head(s)>> \o InsertSlot_Unstable(x, Tail(s))

\* one step of the stable sort: x goes behind every element whose key is
\* not greater than its own
RECURSIVE InsertSlot(_, _)
InsertSlot(x, s) ==
    IF s = <<>> THEN <<x>>
    ELSE IF StrLess(SlotKey(x), SlotKey(Head(s))) THEN <<x>> \o s
    ELSE <<Head(s)>> \o InsertSlot(x, Tail(s))

\* sorted(day_schedule, key=lambda x: x.get("time", "00:00"))
RECURSIVE SortedSlots(_)
SortedSlots(s) ==
    IF s = <<>> THEN <<>>
    ELSE InsertSlot(s[Len(s)], SortedSlots(SubSeq(s, 1, Len(s) - 1)))

\* SCHEDULE_WEEKDAY if current_day < 5 else SCHEDULE_WEEKEND
ScheduleType(t) == IF CurrentDay(t) < 5 THEN SCHEDULE_WEEKDAY ELSE SCHEDULE_WEEKEND

\* self._schedules.get(schedule_type, [])
DaySchedule(scheds, t) == DictGet(scheds, ScheduleType(t), <<>>)

\* the for loop of _async_check_schedule over the sorted slots: the preset of
\* every slot that has started replaces the previous one, the first slot that
\* has not started ends the loop
RECURSIVE ScanActive(_, _, _)
ScanActive(s, current_time, acc) ==
    IF s = <<>> THEN acc
    ELSE IF current_time >= Strptime(SlotKey(Head(s)))
         THEN ScanActive(Tail(s), current_time, SlotGet(Head(s), "preset"))
         ELSE acc

ResolveActivePreset(scheds, t) ==
    ScanActive(SortedSlots(DaySchedule(scheds, t)), CurrentTime(t), None)

\* a slot that starts at the current minute counts as the next one
RECURSIVE FirstLater_Inclusive(_, _)
FirstLater_Inclusive(s, current_time) ==
    IF s = <<>> THEN None
    ELSE IF current_time <= Strptime(SlotKey(Head(s))) THEN Some(Head(s))
    ELSE FirstLater_Inclusive(Tail(s), current_time)

\* the for loop of _get_next_schedule and _get_next_temperature: the first
\* sorted slot that has not started, as an optional
RECURSIVE FirstLater(_, _)
FirstLater(s, current_time) ==
    IF s = <<>> THEN None
    ELSE IF current_time < Strptime(SlotKey(Head(s))) THEN Some(Head(s))
    ELSE FirstLater(Tail(s), current_time)

GetNextSchedule(scheds, t) ==
    LET f == FirstLater(SortedSlots(DaySchedule(scheds, t)), CurrentTime(t))
    IN  IF f = None THEN None ELSE SlotGet(f[1], "time")

\* self._presets.get(preset, {}).get("temperature"), preset an optional name
CatalogTemperature(cat, preset) ==
    LET entry == IF preset = None THEN EmptyDict ELSE DictGet(cat, preset[1], EmptyDict)
    IN  IF "temperature" \in DOMAIN entry THEN Some(entry["temperature"]) ELSE None

\* the lookup falls back to 21 as async_set_preset_mode does
GetNextTemperature_Fallback(scheds, cat, t) ==
    LET f == FirstLater(SortedSlots(DaySchedule(scheds, t)), CurrentTime(t))
    IN  IF f = None THEN None
        ELSE LET preset == SlotGet(f[1], "preset")
             IN  IF preset = None THEN Some(21)
                 ELSE Some(DictGet(DictGet(cat, preset[1], EmptyDict), "temperature", 21))

GetNextTemperature(scheds, cat, t) ==
    LET f == FirstLater(SortedSlots(DaySchedule(scheds, t)), CurrentTime(t))
    IN  IF f = None THEN None ELSE CatalogTemperature(cat, SlotGet(f[1], "preset"))

\* the manual-override test of _async_check_schedule
OVERRIDE_MINUTES == 30

\* a recorded change suppresses the schedule for good
ManualOverrideActive_Sticky(last, t) == last # None

\* the elapsed time is left in seconds
ManualOverrideActive_Seconds(last, t) ==
    /\ last # None
    /\ (t - last[1]) * 60 < OVERRIDE_MINUTES

ManualOverrideActive(last, t) ==
    /\ last # None
    /\ t - last[1] < OVERRIDE_MINUTES

----------------------------------------------------------------------------
(* The entity and its handlers.  A handler is an operator from the entity   *)
(* fields (a record self) and the clock to the fields it leaves and the     *)
(* service calls it makes; the actions below commit that result.            *)

\* the fields as __init__ leaves them
InitialSelf == [target_temperature |-> None,
                hvac_mode          |-> HVAC_HEAT_COOL,
                preset_mode        |-> PRESET_HOME,
                last_preset_change |-> None]

Self == [target_temperature |-> target_temperature,
         hvac_mode          |-> hvac_mode,
         preset_mode        |-> preset_mode,
         last_preset_change |-> last_preset_change]

\* the request of the awaited async_call of lines 218-226
TemperatureRequest(self) ==
    [service     |-> "set_temperature",
     entity_id   |-> climate_entity[1],
     temperature |-> self.target_temperature[1]]

\* the request of the awaited async_call of lines 229-237
HvacRequest(self) ==
    [service   |-> "set_hvac_mode",
     entity_id |-> climate_entity[1],
     hvac_mode |-> self.hvac_mode]

\* _async_apply_to_climate_entity up to its first await: the request passed
\* to hass.services.async_call and the await the coroutine is suspended at.
\* Without a climate entity it returns at once and the caller writes the
\* state ("written").
ApplyToClimateEntity(self) ==
    IF climate_entity = None THEN [calls |-> <<>>, pc |-> "written"]
    ELSE IF self.target_temperature # None
    THEN [calls |-> <<TemperatureRequest(self)>>, pc |-> "await_temperature"]
    ELSE [calls |-> <<HvacRequest(self)>>, pc |-> "await_hvac"]

\* a handler that has assigned the fields s1 and awaits
\* _async_apply_to_climate_entity
Applied(s1) ==
    [self  |-> s1,
     calls |-> ApplyToClimateEntity(s1).calls,
     pc    |-> ApplyToClimateEntity(s1).pc]

\* a handler that returns without assigning, calling or writing the state
Returned(self) == [self |-> self, calls |-> <<>>, pc |-> "returned"]

\* a handler is suspended at pc
Suspended(pc) == pc \notin {"written", "returned"}

\* the request that raised is sent once more
Dispatch_Retry(pc, raised) ==
    IF raised
    THEN [calls |-> IF pc = "await_temperature" THEN <<TemperatureRequest(Self)>>
                    ELSE <<HvacRequest(Self)>>,
          pc    |-> pc,
          error |-> TRUE]
    ELSE IF pc = "await_temperature"
    THEN [calls |-> <<HvacRequest(Self)>>, pc |-> "await_hvac", error |-> FALSE]
    ELSE [calls |-> <<>>, pc |-> "written", error |-> FALSE]

\* _async_apply_to_climate_entity from the return of the async_call awaited
\* at pc: when the call raised, the except clause logs and the handler
\* writes the state and returns; after set_temperature the HVAC mode the
\* entity has by now is requested; after set_hvac_mode the handler writes
\* the state and returns
Dispatch(pc, raised) ==
    IF raised
    THEN [calls |-> <<>>, pc |-> "written", error |-> TRUE]
    ELSE IF pc = "await_temperature"
    THEN [calls |-> <<HvacRequest(Self)>>, pc |-> "await_hvac", error |-> FALSE]
    ELSE [calls |-> <<>>, pc |-> "written", error |-> FALSE]

FALLBACK_TEMPERATURE == 21

\* self._presets.get(preset_mode, {}).get("temperature", 21)
PresetTemperature(cat, preset) ==
    DictGet(DictGet(cat, preset, EmptyDict), "temperature", FALLBACK_TEMPERATURE)

\* a new setpoint counts as a manual change and re-arms the override window
SetTemperature_Stamps(self, temperature) ==
    IF temperature # None /\ temperature[1] # 0
    THEN LET s1 == [self EXCEPT !.target_temperature = temperature,
                                !.last_preset_change = Some(now)]
         IN  Applied(s1)
    ELSE Returned(self)

\* async_set_temperature(**kwargs); temperature is kwargs.get(ATTR_TEMPERATURE)
\* as an optional, and the walrus test is Python truthiness
SetTemperature(self, temperature) ==
    IF temperature # None /\ temperature[1] # 0
    THEN LET s1 == [self EXCEPT !.target_temperature = temperature]
         IN  Applied(s1)
    ELSE Returned(self)

\* async_set_hvac_mode(hvac_mode)
SetHvacMode(self, mode) ==
    LET s1 == [self EXCEPT !.hvac_mode = mode]
    IN  Applied(s1)

\* the override window is also applied to the caller
SetPresetMode_Windowed(self, preset, t) ==
    IF preset \notin attr_preset_modes \/ ManualOverrideActive(self.last_preset_change, t)
    THEN Returned(self)
    ELSE LET s1 == [self EXCEPT
                      !.preset_mode        = preset,
                      !.last_preset_change = Some(t),
                      !.target_temperature = Some(PresetTemperature(presets, preset))]
         IN  Applied(s1)

\* the membership test is missing
SetPresetMode_Unchecked(self, preset, t) ==
    LET s1 == [self EXCEPT
                 !.preset_mode        = preset,
                 !.last_preset_change = Some(t),
                 !.target_temperature = Some(PresetTemperature(presets, preset))]
    IN  Applied(s1)

\* async_set_preset_mode(preset_mode), called at clock t
SetPresetMode(self, preset, t) ==
    IF preset \notin attr_preset_modes
    THEN Returned(self)
    ELSE LET s1 == [self EXCEPT
                      !.preset_mode        = preset,
                      !.last_preset_change = Some(t),
                      !.target_temperature = Some(PresetTemperature(presets, preset))]
         IN  Applied(s1)

\* every check applies the resolved preset, whatever the current one
CheckSchedule_Always(self, t) ==
    IF DOMAIN schedules = {}
    THEN [self |-> self, calls |-> <<>>, pc |-> "returned", active_preset |-> None]
    ELSE IF DaySchedule(schedules, t) = <<>>
    THEN [self |-> self, calls |-> <<>>, pc |-> "returned", active_preset |-> None]
    ELSE LET active == ResolveActivePreset(schedules, t)
         IN  IF active # None
             THEN LET r == SetPresetMode(self, active[1], t)
                  IN  [self |-> r.self, calls |-> r.calls, pc |-> r.pc, active_preset |-> active]
             ELSE [self |-> self, calls |-> <<>>, pc |-> "returned", active_preset |-> active]

\* outside the override window a check applies the resolved preset again
\* when it is already the current one
CheckSchedule_Reapplies(self, t) ==
    IF DOMAIN schedules = {}
    THEN [self |-> self, calls |-> <<>>, pc |-> "returned", active_preset |-> None]
    ELSE IF DaySchedule(schedules, t) = <<>>
    THEN [self |-> self, calls |-> <<>>, pc |-> "returned", active_preset |-> None]
    ELSE LET active == ResolveActivePreset(schedules, t)
         IN  IF active # None
             THEN IF ManualOverrideActive(self.last_preset_change, t)
                  THEN [self |-> self, calls |-> <<>>, pc |-> "returned", active_preset |-> active]
                  ELSE LET r == SetPresetMode(self, active[1], t)
                       IN  [self |-> r.self, calls |-> r.calls, pc |-> r.pc, active_preset |-> active]
             ELSE [self |-> self, calls |-> <<>>, pc |-> "returned", active_preset |-> active]

\* _async_check_schedule, run at clock t; active_preset is its local
CheckSchedule(self, t) ==
    IF DOMAIN schedules = {}
    THEN [self |-> self, calls |-> <<>>, pc |-> "returned", active_preset |-> None]
    ELSE IF DaySchedule(schedules, t) = <<>>
    THEN [self |-> self, calls |-> <<>>, pc |-> "returned", active_preset |-> None]
    ELSE LET active == ResolveActivePreset(schedules, t)
         IN  IF active # None /\ active[1] # self.preset_mode
             THEN IF ManualOverrideActive(self.last_preset_change, t)
                  THEN [self |-> self, calls |-> <<>>, pc |-> "returned", active_preset |-> active]
                  ELSE LET r == SetPresetMode(self, active[1], t)
                       IN  [self |-> r.self, calls |-> r.calls, pc |-> r.pc, active_preset |-> active]
             ELSE [self |-> self, calls |-> <<>>, pc |-> "returned", active_preset |-> active]

\* float(x) of a stored attribute value: a number converts, None and a text
\* that is no number raise (None here)
PyFloat(v) == IF "num" \in DOMAIN v THEN Some(v.num) ELSE None

STATE_UNAVAILABLE == "unavailable"

STATE_UNKNOWN == "unknown"

\* the override record is carried over from the entity that wrote the state
RestoreState_KeepsOverride(self, last_state) ==
    IF last_state = None THEN self
    ELSE IF last_state[1].state \in {STATE_UNAVAILABLE, STATE_UNKNOWN} THEN self
    ELSE LET attributes == last_state[1].attributes
             temp == PyFloat(DictGet(attributes, "temperature",
                                     [num |-> FALLBACK_TEMPERATURE]))
             kept == IF base = None THEN self.last_preset_change
                     ELSE base[1].self.last_preset_change
         IN  IF temp = None THEN [self EXCEPT !.last_preset_change = kept]
             ELSE [self EXCEPT
                     !.target_temperature = temp,
                     !.preset_mode = DictGet(attributes, "preset_mode", PRESET_HOME),
                     !.last_preset_change = kept]

\* the preset is not read back
RestoreState_TemperatureOnly(self, last_state) ==
    IF last_state = None THEN self
    ELSE IF last_state[1].state \in {STATE_UNAVAILABLE, STATE_UNKNOWN} THEN self
    ELSE LET attributes == last_state[1].attributes
             temp == PyFloat(DictGet(attributes, "temperature",
                                     [num |-> FALLBACK_TEMPERATURE]))
         IN  IF temp = None THEN self
             ELSE [self EXCEPT !.target_temperature = temp]

\* the restore block of async_added_to_hass; last_state is an optional
\* [state, attributes]
RestoreState(self, last_state) ==
    IF last_state = None THEN self
    ELSE IF last_state[1].state \in {STATE_UNAVAILABLE, STATE_UNKNOWN} THEN self
    ELSE LET attributes == last_state[1].attributes
             temp == PyFloat(DictGet(attributes, "temperature",
                                     [num |-> FALLBACK_TEMPERATURE]))
         IN  IF temp = None THEN self
             ELSE [self EXCEPT
                     !.target_temperature = temp,
                     !.preset_mode = DictGet(attributes, "preset_mode", PRESET_HOME)]

\* async_track_time_change(..., minute=range(0, 60, 5), second=0)
TICK_MINUTES == 5

TimerFires(t) == (CurrentTime(t) % 60) % TICK_MINUTES = 0

----------------------------------------------------------------------------
(* Configurations and inputs *)

Slot(h, m, preset) == [time |-> HHMM(h, m), preset |-> preset]

\* config_flow.py
DEFAULT_SCHEDULES ==
    [weekday |-> <<Slot(6, 0, PRESET_HOME), Slot(8, 0, PRESET_AWAY),
                   Slot(17, 0, PRESET_HOME), Slot(22, 0, PRESET_SLEEP)>>,
     weekend |-> <<Slot(8, 0, PRESET_HOME), Slot(23, 0, PRESET_SLEEP)>>]

\* config_flow.py
DEFAULT_PRESETS ==
    [home     |-> [temperature |-> 21],
     away     |-> [temperature |-> 18],
     sleep    |-> [temperature |-> 19],
     vacation |-> [temperature |-> 16]]

\* a table stored out of time order, with two slots at 16:30, a slot naming a
\* preset the entity does not support, and no weekend list
UnorderedSchedules ==
    [weekday |-> <<Slot(16, 40, "bogus"), Slot(16, 30, PRESET_SLEEP),
                   Slot(16, 30, PRESET_AWAY), Slot(8, 0, PRESET_HOME)>>]

\* a catalog without "away" and with a "sleep" entry that has no temperature
SparsePresets ==
    [home     |-> [temperature |-> 21],
     sleep    |-> EmptyDict,
     vacation |-> [temperature |-> 16]]

At(day, h, m) == day * MinutesPerDay + h * 60 + m

\* Tuesday 16:25
StartTuesday == At(1, 16, 25)

\* Saturday 07:40
StartSaturday == At(5, 7, 40)

\* the configurations of the entity: schedules, presets, climate entity and
\* the moment of construction
Configurations ==
    { <<DEFAULT_SCHEDULES, DEFAULT_PRESETS, Some("climate.thermostat"), StartTuesday>>,
      <<DEFAULT_SCHEDULES, SparsePresets, Some("climate.thermostat"), StartTuesday>>,
      <<DEFAULT_SCHEDULES, DEFAULT_PRESETS, None, StartSaturday>>,
      <<UnorderedSchedules, DEFAULT_PRESETS, Some("climate.thermostat"), StartTuesday>>,
      <<UnorderedSchedules, SparsePresets, Some("climate.thermostat"), StartSaturday>>,
      <<EmptyDict, DEFAULT_PRESETS, Some("climate.thermostat"), StartTuesday>> }

\* the minutes past the construction at which the model also stops the clock
OffTimerMinutes == {1}

\* the clock readings that follow t: the next timer minute, and from the
\* moment of construction the readings OffTimerMinutes after it
ClockTargets(t) ==
    {t + (TICK_MINUTES - (t % TICK_MINUTES))}
        \cup (IF uptime = 0 THEN {t + d : d \in OffTimerMinutes} ELSE {})

MaxUptime == 35

\* handlers suspended at the same time
MaxInflight == 2

LastState(state, attributes) == Some([state |-> state, attributes |-> attributes])

LastStates ==
    { None,
      LastState(STATE_UNAVAILABLE, [temperature |-> [num |-> 16], preset_mode |-> PRESET_VACATION]),
      LastState("heat_cool", [temperature |-> [num |-> 16], preset_mode |-> PRESET_VACATION]),
      LastState("heat_cool", [temperature |-> [null |-> TRUE], preset_mode |-> PRESET_SLEEP]),
      LastState("heat_cool", [temperature |-> [num |-> 16], preset_mode |-> "eco"]),
      LastState("heat_cool", EmptyDict) }

PresetInputs == {PRESET_SLEEP, PRESET_VACATION, "bogus"}

TemperatureInputs == {None, Some(0), Some(20)}

HvacInputs == {"off"}

----------------------------------------------------------------------------
(* Actions *)

Init ==
    /\ \E c \in Configurations :
          /\ options = [schedules |-> c[1], presets |-> c[2]]
          /\ schedules = c[1]
          /\ presets = c[2]
          /\ climate_entity = c[3]
          /\ now = c[4]
    /\ target_temperature = None
    /\ hvac_mode = HVAC_HEAT_COOL
    /\ preset_mode = PRESET_HOME
    /\ last_preset_change = None
    /\ listening = FALSE
    /\ uptime = 0
    /\ active_preset = None
    /\ attrs = None
    /\ calls = <<>>
    /\ apply_error = FALSE
    /\ last_op = "init"
    /\ manual_at = None
    /\ manual_rearmed = FALSE
    /\ inflight = NoTasks
    /\ base = None

Commit(self) ==
    /\ target_temperature' = self.target_temperature
    /\ hvac_mode' = self.hvac_mode
    /\ preset_mode' = self.preset_mode
    /\ last_preset_change' = self.last_preset_change

\* extra_state_attributes of an entity with the fields self, read at clock t
Attributes(self, t) ==
    [scheduled_entity |-> climate_entity,
     active_preset    |-> self.preset_mode,
     next_schedule    |-> GetNextSchedule(schedules, t),
     next_temperature |-> GetNextTemperature(schedules, presets, t)]

\* async_write_ha_state() before a handler returns: the host reads
\* extra_state_attributes; a handler that is suspended or returns early
\* publishes nothing
Published(self, pc) == IF pc = "written" THEN Some(Attributes(self, now)) ELSE None

Task(op, pc) == [op |-> op, pc |-> pc]

\* the suspended handlers after a handler op has been suspended at pc or has
\* returned
Joined(tasks, op, pc) ==
    IF Suspended(pc) THEN tasks (+) SetToBag({Task(op, pc)}) ELSE tasks

\* the suspended handlers after task has moved to pc
Moved(task, pc) == Joined(inflight (-) SetToBag({task}), task.op, pc)

\* the check reads the fields as they were\* the check reads the fields as they were before the other handler began
TickReads_Stale == IF base = None THEN Self ELSE base[1].self

\* the fields _async_check_schedule reads: there is no await between its
\* tests and the assignments of async_set_preset_mode
TickReads == Self

\* the synchronous part of a handler op with result r, from its call to its
\* first await or its return
Begins(op, r) ==
    /\ Suspended(r.pc) => BagCardinality(inflight) < MaxInflight
    /\ Commit(r.self)
    /\ calls' = r.calls
    /\ inflight' = Joined(inflight, op, r.pc)
    /\ attrs' = Published(r.self, r.pc)
    /\ apply_error' = FALSE
    /\ last_op' = op

\* async_added_to_hass up to await super().async_added_to_hass() (line 115)
AsyncAddedToHass ==
    /\ ~listening
    /\ inflight = NoTasks
    /\ inflight' = Joined(inflight, "added_to_hass", "await_super")
    /\ calls' = <<>>
    /\ attrs' = None
    /\ apply_error' = FALSE
    /\ active_preset' = None
    /\ last_op' = "added_begin"
    /\ UNCHANGED <<config, entity, base, listening, now, uptime, manual_at, manual_rearmed>>

\* from line 115 to await self.async_get_last_state() (line 118)
AddedResume(task) ==
    /\ task.pc = "await_super"
    /\ inflight' = Moved(task, "await_last_state")
    /\ calls' = <<>>
    /\ attrs' = None
    /\ apply_error' = FALSE
    /\ active_preset' = None
    /\ last_op' = "added_resume"
    /\ UNCHANGED <<config, entity, base, listening, now, uptime, manual_at, manual_rearmed>>

\* from line 118, with the last state the host returns: restore, register the
\* timer, run the first check up to its first await or to its return
AddedRestore(task, last_state) ==
    /\ task.pc = "await_last_state"
    /\ LET r == CheckSchedule(RestoreState(Self, last_state), now)
       IN  /\ Commit(r.self)
           /\ calls' = r.calls
           /\ inflight' = Moved(task, r.pc)
           /\ attrs' = Published(r.self, r.pc)
           /\ active_preset' = r.active_preset
    /\ listening' = TRUE
    /\ apply_error' = FALSE
    /\ last_op' = "added_to_hass"
    /\ UNCHANGED <<config, base, now, uptime, manual_at, manual_rearmed>>

\* the timer callback up to its first await or its return
CheckScheduleBegins ==
    /\ listening
    /\ TimerFires(now)
    /\ LET r == CheckSchedule(TickReads, now)
       IN  /\ Begins("check_schedule", r)
           /\ active_preset' = r.active_preset
    /\ UNCHANGED <<config, listening, now, uptime, manual_at, manual_rearmed>>

AsyncCheckSchedule == CheckScheduleBegins /\ UNCHANGED base

\* the user's climate.set_temperature up to its first await or its return
AsyncSetTemperature(temperature) ==
    /\ listening
    /\ Begins("set_temperature", SetTemperature(Self, temperature))
    /\ active_preset' = None
    /\ UNCHANGED <<config, base, listening, now, uptime, manual_at, manual_rearmed>>

\* the user's climate.set_hvac_mode up to its first await or its return
AsyncSetHvacMode(mode) ==
    /\ listening
    /\ Begins("set_hvac_mode", SetHvacMode(Self, mode))
    /\ active_preset' = None
    /\ UNCHANGED <<config, base, listening, now, uptime, manual_at, manual_rearmed>>

\* the user's climate.set_preset_mode up to its first await or its return
SetPresetModeBegins(preset) ==
    /\ listening
    /\ Begins("set_preset_mode", SetPresetMode(Self, preset, now))
    /\ manual_at' = IF preset \in attr_preset_modes THEN Some(now) ELSE manual_at
    /\ manual_rearmed' = IF preset \in attr_preset_modes
                         THEN manual_at # None /\ now - manual_at[1] < OVERRIDE_MINUTES
                         ELSE manual_rearmed
    /\ active_preset' = None
    /\ UNCHANGED <<config, listening, now, uptime>>

AsyncSetPresetMode(preset) == SetPresetModeBegins(preset) /\ UNCHANGED base

\* an awaited hass.services.async_call returns to the suspended handler i,
\* normally or by raising
Resumes(task, raised) ==
    /\ task.pc \in {"await_temperature", "await_hvac"}
    /\ LET d == Dispatch(task.pc, raised)
       IN  /\ calls' = d.calls
           /\ inflight' = Moved(task, d.pc)
           /\ attrs' = Published(Self, d.pc)
           /\ apply_error' = d.error
    /\ active_preset' = None
    /\ last_op' = "resume"
    /\ UNCHANGED <<config, entity, listening, now, uptime, manual_at, manual_rearmed>>

Resume(task, raised) == Resumes(task, raised) /\ UNCHANGED base

\* extra_state_attributes, read by the host at any time
ExtraStateAttributes ==
    /\ listening
    /\ attrs' = Some(Attributes(Self, now))
    /\ active_preset' = None
    /\ calls' = <<>>
    /\ apply_error' = FALSE
    /\ last_op' = "extra_state_attributes"
    /\ UNCHANGED <<config, entity, inflight, base, listening, now, uptime,
                   manual_at, manual_rearmed>>

\* the wall clock advances; a suspended handler resumes within the minute
Advances(t) ==
    /\ inflight = NoTasks
    /\ uptime + (t - now) <= MaxUptime
    /\ now' = t
    /\ uptime' = uptime + (t - now)
    /\ active_preset' = None
    /\ attrs' = None
    /\ calls' = <<>>
    /\ apply_error' = FALSE
    /\ last_op' = "clock"
    /\ UNCHANGED <<config, entity, inflight, listening, manual_at, manual_rearmed>>

Advance(t) == Advances(t) /\ UNCHANGED base

Next ==
    \/ AsyncAddedToHass
    \/ \E task \in BagToSet(inflight) : AddedResume(task)
    \/ \E task \in BagToSet(inflight) : \E last_state \in LastStates : AddedRestore(task, last_state)
    \/ AsyncCheckSchedule
    \/ \E temperature \in TemperatureInputs : AsyncSetTemperature(temperature)
    \/ \E mode \in HvacInputs : AsyncSetHvacMode(mode)
    \/ \E preset \in PresetInputs : AsyncSetPresetMode(preset)
    \/ \E task \in BagToSet(inflight) : \E raised \in BOOLEAN : Resume(task, raised)
    \/ ExtraStateAttributes
    \/ \E t \in ClockTargets(now) : Advance(t)

Spec == Init /\ [][Next]_vars

----------------------------------------------------------------------------
(* Properties of the override window *)

\* the check at hand resolved a supported preset other than the current one
ResolvedOther ==
    /\ active_preset' # None
    /\ active_preset'[1] \in attr_preset_modes
    /\ active_preset'[1] # preset_mode

\* C1: a timer check made less than 30 minutes after a user's
\* set_preset_mode, and resolving a supported preset other than the current
\* one, changes neither the preset nor the target temperature.
C1_OverrideSuppression ==
    [][(/\ AsyncCheckSchedule
        /\ manual_at # None
        /\ now - manual_at[1] < OVERRIDE_MINUTES
        /\ ResolvedOther)
       => UNCHANGED <<preset_mode, target_temperature>>]_vars

\* a check 29 minutes after the user's call has resolved another supported
\* preset and left the user's preset in place
C1_Witness ==
    /\ last_op = "check_schedule"
    /\ manual_at # None
    /\ now - manual_at[1] = OVERRIDE_MINUTES - 1
    /\ active_preset # None
    /\ active_preset[1] \in attr_preset_modes
    /\ active_preset[1] # preset_mode
    /\ calls = <<>>

\* C2 (as claimed): a timer check made 30 minutes or more after the last
\* user's set_preset_mode, and resolving a supported preset other than the
\* current one, makes that preset the current one.
C2_OverrideExpiry ==
    [][(/\ AsyncCheckSchedule
        /\ manual_at # None
        /\ now - manual_at[1] >= OVERRIDE_MINUTES
        /\ ResolvedOther)
       => preset_mode' = active_preset'[1]]_vars

\* C3 (as claimed): a timer check that changes the preset leaves
\* last_preset_change as it was.
C3_ScheduleNeverStamps ==
    [][(AsyncCheckSchedule /\ preset_mode' # preset_mode)
       => last_preset_change' = last_preset_change]_vars

\* C4: a user's set_preset_mode with a supported preset makes it the current
\* preset and sets last_preset_change to the time of the call, also inside
\* the window of an earlier call.
C4_ManualAlwaysApplies ==
    [][\A preset \in attr_preset_modes :
         AsyncSetPresetMode(preset)
         => /\ preset_mode' = preset
            /\ last_preset_change' = Some(now)
            /\ ~ManualOverrideActive(last_preset_change', now + OVERRIDE_MINUTES)
            /\ ManualOverrideActive(last_preset_change', now + OVERRIDE_MINUTES - 1)]_vars

\* a user's call made later than, and inside the window of, an earlier one has
\* been applied
C4_Witness ==
    /\ last_op = "set_preset_mode"
    /\ manual_rearmed
    /\ manual_at = Some(now)
    /\ last_preset_change = Some(now)
    /\ uptime > 0

\* C8: from every state, a second check at the same clock reading leaves the
\* entity as the first check left it and makes no service call.
C8_TickIdempotent ==
    LET first  == CheckSchedule(Self, now)
        second == CheckSchedule(first.self, now)
    IN  /\ second.self = first.self
        /\ second.calls = <<>>
        /\ second.pc = "returned"

\* the timer is due in a state where the check changes the preset
C8_Witness ==
    /\ listening
    /\ TimerFires(now)
    /\ last_op = "clock"
    /\ CheckSchedule(Self, now).self.preset_mode # preset_mode
    /\ CheckSchedule(Self, now).calls # <<>>

\* C9: a preset outside attr_preset_modes, passed by the user or resolved by
\* a check, changes no field of the entity and makes no service call.
C9_InvalidPresetRejected ==
    [][/\ \A preset \in PresetInputs \ attr_preset_modes :
            AsyncSetPresetMode(preset) => UNCHANGED entity /\ calls' = <<>>
       /\ (/\ AsyncCheckSchedule
           /\ active_preset' # None
           /\ active_preset'[1] \notin attr_preset_modes)
          => UNCHANGED entity /\ calls' = <<>>]_vars

\* a check outside the override window has resolved an unsupported preset
C9_Witness ==
    /\ last_op = "check_schedule"
    /\ active_preset # None
    /\ active_preset[1] \notin attr_preset_modes
    /\ ~ManualOverrideActive(last_preset_change, now)
    /\ climate_entity # None

\* the catalog's temperature for a preset name, when it has one
CatalogHas(preset) ==
    /\ preset \in DOMAIN presets
    /\ "temperature" \in DOMAIN presets[preset]

\* C10 (as claimed): a user's set_preset_mode with a supported preset sets
\* the target temperature to the catalog's temperature for it, and keeps the
\* previous target temperature when the catalog has none.
C10_NoDefaultTemperature ==
    [][\A preset \in attr_preset_modes :
         AsyncSetPresetMode(preset)
         => /\ preset_mode' = preset
            /\ target_temperature' =
                 IF CatalogHas(preset) THEN Some(presets[preset].temperature)
                 ELSE target_temperature]_vars

----------------------------------------------------------------------------
(* Schedule resolution over all small tables *)

SlotTimes == {HHMM(6, 0), HHMM(8, 0)}

SlotPresets == {PRESET_HOME, PRESET_AWAY}

MaxSlots == 3

SlotValues == {[time |-> t, preset |-> p] : t \in SlotTimes, p \in SlotPresets}

SlotSeqs(n) == UNION {[1..k -> SlotValues] : k \in 0..n}

\* Monday, Friday, Saturday and Sunday at 05:55, 06:00, 07:00, 08:00, 08:05
ProbeTimes ==
    {At(day, hm[1], hm[2]) :
        day \in {0, 4, 5, 6},
        hm \in {<<5, 55>>, <<6, 0>>, <<7, 0>>, <<8, 0>>, <<8, 5>>}}

\* a catalog whose "home" entry has no temperature and that has no "away"
BarePresets ==
    [home     |-> EmptyDict,
     vacation |-> [temperature |-> 16]]

InitResolver ==
    /\ \E n \in 0..MaxSlots :
         \E wd \in SlotSeqs(n) :
           \E we \in SlotSeqs(MaxSlots - Len(wd)) :
             schedules = [weekday |-> wd, weekend |-> we]
    /\ presets \in {DEFAULT_PRESETS, BarePresets}
    /\ options = [schedules |-> schedules, presets |-> presets]
    /\ climate_entity = Some("climate.thermostat")
    /\ target_temperature = None
    /\ hvac_mode = HVAC_HEAT_COOL
    /\ preset_mode = PRESET_HOME
    /\ last_preset_change = None
    /\ listening = FALSE
    /\ now \in ProbeTimes
    /\ uptime = 0
    /\ active_preset = None
    /\ attrs = None
    /\ calls = <<>>
    /\ apply_error = FALSE
    /\ last_op = "init"
    /\ manual_at = None
    /\ manual_rearmed = FALSE
    /\ inflight = NoTasks
    /\ base = None

NextResolver ==
    \/ AsyncAddedToHass
    \/ \E task \in BagToSet(inflight) : AddedResume(task)
    \/ \E task \in BagToSet(inflight) : AddedRestore(task, None)
    \/ AsyncCheckSchedule
    \/ \E task \in BagToSet(inflight) : \E raised \in BOOLEAN : Resume(task, raised)
    \/ ExtraStateAttributes

SpecResolver == InitResolver /\ [][NextResolver]_vars

\* the day's table by the calendar: Saturday and Sunday are the weekend
TableOfDay(t) ==
    LET day == (t \div 1440) % 7
    IN  IF day \in {5, 6}
        THEN (IF "weekend" \in DOMAIN schedules THEN schedules["weekend"] ELSE <<>>)
        ELSE (IF "weekday" \in DOMAIN schedules THEN schedules["weekday"] ELSE <<>>)

MinuteOfDay(t) == t % 1440

SlotMinute(slot) == (slot.time[1] * 10 + slot.time[2]) * 60 + slot.time[4] * 10 + slot.time[5]

\* positions of the slots that have started, and of those still to come
Started(table, minute) == {i \in DOMAIN table : SlotMinute(table[i]) <= minute}

Later(table, minute) == {i \in DOMAIN table : SlotMinute(table[i]) > minute}

\* C5: the preset a check resolves is that of the started slot with the
\* latest time, the last one in the stored sequence among equals, in the
\* table of the day; it is None when no slot of the day has started.
C5_ActivePresetIsLatestStarted ==
    last_op \in {"check_schedule", "added_to_hass"} =>
        LET table   == TableOfDay(now)
            started == Started(table, MinuteOfDay(now))
        IN  IF started = {} THEN active_preset = None
            ELSE \E i \in started :
                   /\ \A j \in started :
                        \/ SlotMinute(table[j]) < SlotMinute(table[i])
                        \/ (SlotMinute(table[j]) = SlotMinute(table[i]) /\ j <= i)
                   /\ active_preset = Some(table[i].preset)

\* a check has resolved a table stored out of time order in which two started
\* slots share the latest time and name different presets
C5_Witness ==
    /\ last_op = "check_schedule"
    /\ LET table   == TableOfDay(now)
           started == Started(table, MinuteOfDay(now))
       IN  /\ \E i, j \in started :
                /\ i < j
                /\ table[i].time = table[j].time
                /\ table[i].preset # table[j].preset
                /\ active_preset = Some(table[j].preset)
                /\ \A k \in started : SlotMinute(table[k]) <= SlotMinute(table[i])
           /\ \E i, j \in DOMAIN table : i < j /\ SlotMinute(table[j]) < SlotMinute(table[i])

\* C6: next_schedule is never a time at or before the current minute; it is
\* the smallest time among the day's slots still to come, and None when
\* there is none.
C6_NextScheduleIsEarliestLater ==
    last_op = "extra_state_attributes" =>
        LET table == TableOfDay(now)
            later == Later(table, MinuteOfDay(now))
            next  == attrs[1].next_schedule
        IN  IF later = {} THEN next = None
            ELSE /\ next # None
                 /\ \E i \in later : table[i].time = next[1]
                 /\ \A j \in later :
                      (next[1][1] * 10 + next[1][2]) * 60 + next[1][4] * 10 + next[1][5]
                          <= SlotMinute(table[j])

\* the attributes were read at the minute one slot starts while another slot,
\* stored before it, is still to come
C6_Witness ==
    /\ last_op = "extra_state_attributes"
    /\ LET table == TableOfDay(now)
       IN  /\ \E i \in DOMAIN table : SlotMinute(table[i]) = MinuteOfDay(now)
           /\ \E i, j \in DOMAIN table :
                /\ i < j
                /\ SlotMinute(table[j]) < SlotMinute(table[i])
                /\ attrs[1].next_schedule = Some(table[i].time)

\* the slot the next-transition query stops at: among the slots still to come
\* with the smallest time, the first in the stored sequence
NextSlotIndex(table, minute) ==
    CHOOSE i \in Later(table, minute) :
        \A j \in Later(table, minute) :
            \/ SlotMinute(table[i]) < SlotMinute(table[j])
            \/ (SlotMinute(table[i]) = SlotMinute(table[j]) /\ i <= j)

\* C7: next_temperature is the catalog's temperature for the preset of the
\* slot next_schedule comes from; it is None when there is no such slot or
\* the catalog has no temperature for that preset.
C7_NextTemperatureFromCatalog ==
    last_op = "extra_state_attributes" =>
        LET table == TableOfDay(now)
            later == Later(table, MinuteOfDay(now))
            temp  == attrs[1].next_temperature
        IN  IF later = {} THEN temp = None /\ attrs[1].next_schedule = None
            ELSE LET slot == table[NextSlotIndex(table, MinuteOfDay(now))]
                 IN  /\ attrs[1].next_schedule = Some(slot.time)
                     /\ temp = IF CatalogHas(slot.preset)
                               THEN Some(presets[slot.preset].temperature)
                               ELSE None

\* the attributes were read when the next slot names a preset the catalog has
\* no entry for, and a second slot at the same time names a preset whose
\* entry has no temperature
C7_Witness ==
    /\ last_op = "extra_state_attributes"
    /\ attrs[1].next_schedule # None
    /\ attrs[1].next_temperature = None
    /\ LET table == TableOfDay(now)
       IN  \E i, j \in Later(table, MinuteOfDay(now)) :
             /\ i < j
             /\ table[i].time = attrs[1].next_schedule[1]
             /\ table[j].time = table[i].time
             /\ table[i].preset \notin DOMAIN presets
             /\ table[j].preset \in DOMAIN presets
             /\ ~CatalogHas(table[j].preset)

----------------------------------------------------------------------------
(* Frame conditions of the handlers *)

\* C11: a timer check changes no field of the entity and makes no service
\* call when the day's table is empty, when no slot of the day has started,
\* or when the preset of the latest started slot is the current preset.
C11_TickNoOp ==
    [][(/\ AsyncCheckSchedule
        /\ \/ TableOfDay(now) = <<>>
           \/ Started(TableOfDay(now), MinuteOfDay(now)) = {}
           \/ active_preset' = Some(preset_mode))
       => UNCHANGED entity /\ calls' = <<>>]_vars

\* a check has run before the first slot of a day that has slots, outside any
\* override window, while the current preset is not the initial one
C11_Witness ==
    /\ last_op = "check_schedule"
    /\ TableOfDay(now) # <<>>
    /\ Started(TableOfDay(now), MinuteOfDay(now)) = {}
    /\ preset_mode # PRESET_HOME
    /\ ~ManualOverrideActive(last_preset_change, now)

\* what a check at clock t makes of the entity fields s: the preset, the
\* override record and whether service calls go out
CheckOutcome(s, t) ==
    LET r == CheckSchedule(s, t)
    IN  <<r.self.preset_mode, r.self.last_preset_change, r.calls = <<>>>>

\* the delays after a call at which a later check is compared: at once, in the
\* last minute of an override window opened by the call, and just after it
CheckDelays == {0, OVERRIDE_MINUTES - 1, OVERRIDE_MINUTES}

\* C12: set_temperature and set_hvac_mode leave the preset and the override
\* record as they are, and a later check decides as it would have decided
\* without the call.
C12_SetpointKeepsOverride ==
    [][((\E temperature \in TemperatureInputs : AsyncSetTemperature(temperature))
          \/ (\E mode \in HvacInputs : AsyncSetHvacMode(mode)))
       => /\ UNCHANGED <<preset_mode, last_preset_change>>
          /\ \A d \in CheckDelays :
               CheckOutcome(Self', now + d) = CheckOutcome(Self, now + d)]_vars

\* set_temperature has changed the target while a schedule change is pending
\* and suppressed
C12_Witness ==
    /\ last_op = "set_temperature"
    /\ calls # <<>>
    /\ target_temperature = Some(20)
    /\ ManualOverrideActive(last_preset_change, now)
    /\ LET active == ResolveActivePreset(schedules, now)
       IN  /\ active # None
           /\ active[1] \in attr_preset_modes
           /\ active[1] # preset_mode

----------------------------------------------------------------------------
(* Restoring the last state *)

\* the state the host keeps for the entity: the HVAC mode as state, the
\* target temperature and the preset as attributes
Snapshot(self) ==
    LastState(self.hvac_mode,
              [temperature |-> IF self.target_temperature = None
                               THEN [null |-> TRUE]
                               ELSE [num |-> self.target_temperature[1]],
               preset_mode |-> self.preset_mode])

\* C14: restoring a new entity from the snapshot of any reachable state gives
\* the preset and the target temperature of that state.
C14_RestoreRoundTrip ==
    LET restored == RestoreState(InitialSelf, Snapshot(Self))
    IN  /\ restored.preset_mode = preset_mode
        /\ restored.target_temperature = target_temperature

\* a running entity whose target temperature is unset
C14_Witness ==
    /\ listening
    /\ target_temperature = None
    /\ hvac_mode # HVAC_HEAT_COOL
    /\ RestoreState(InitialSelf, Snapshot(Self)).target_temperature = None

\* a last state that the restore block reads
Restorable(last_state) ==
    /\ last_state # None
    /\ last_state[1].state \notin {STATE_UNAVAILABLE, STATE_UNKNOWN}

\* C15 (as claimed): of a last state with an invalid or missing field, every
\* valid field is restored and the other falls back to a built-in default,
\* and the timer is registered.  Stated for an entity without schedules,
\* whose first check changes nothing.
C15_MalformedFieldIgnored ==
    [][\A last_state \in LastStates :
         (/\ \E task \in BagToSet(inflight) : AddedRestore(task, last_state)
          /\ Restorable(last_state)
          /\ DOMAIN schedules = {})
         => LET attributes == last_state[1].attributes
            IN  /\ listening'
                /\ IF "preset_mode" \in DOMAIN attributes
                      /\ attributes["preset_mode"] \in attr_preset_modes
                   THEN preset_mode' = attributes["preset_mode"]
                   ELSE preset_mode' = PRESET_HOME
                /\ IF "temperature" \in DOMAIN attributes
                      /\ "num" \in DOMAIN attributes["temperature"]
                   THEN target_temperature' = Some(attributes["temperature"].num)
                   ELSE target_temperature' \in {None, Some(FALLBACK_TEMPERATURE)}]_vars

\* C18 (as claimed): the current preset is always one of attr_preset_modes.
C18_PresetSupported == preset_mode \in attr_preset_modes

----------------------------------------------------------------------------
(* A failing service call *)

\* C13: when an awaited service call raises, whichever handler made it, the
\* handler writes the state and returns in that step, no field of the entity
\* changes (what the handler assigned before the call stays), the timer stays
\* registered and the handler makes no further request: neither the one that
\* raised again nor the one that would follow.
C13_ApplyFailureKeepsState ==
    [][apply_error' =>
         /\ \E task \in BagToSet(inflight) : inflight' = inflight (-) SetToBag({task})
         /\ attrs' # None
         /\ UNCHANGED entity
         /\ listening'
         /\ calls' = <<>>]_vars

\* the set_temperature request of a check that changed the preset has raised:
\* the new preset stays and set_hvac_mode was not requested
C13_Witness ==
    /\ last_op = "resume"
    /\ apply_error
    /\ calls = <<>>
    /\ inflight = NoTasks
    /\ manual_at = None
    /\ last_preset_change = Some(now)
    /\ ResolveActivePreset(schedules, now) = Some(preset_mode)
    /\ attrs # None
    /\ attrs[1].active_preset = preset_mode

----------------------------------------------------------------------------
(* Restart: the host removes the entity and sets up a new one from the      *)
(* state it kept                                                            *)

CONF_SCHEDULES == "schedules"

CONF_PRESETS == "presets"

\* entry.options.get(CONF_SCHEDULES, entry.data.get(CONF_SCHEDULES, {})):
\* entry.data holds the name and the climate entity only
EntrySchedules(opts) == DictGet(opts, CONF_SCHEDULES, EmptyDict)

\* entry.options.get(CONF_PRESETS, entry.data.get(CONF_PRESETS, {}))
EntryPresets(opts) == DictGet(opts, CONF_PRESETS, EmptyDict)

\* the form of the options flow: one temperature for each preset, its
\* default read from the stored presets
OptionsForm(opts) ==
    LET cat == DictGet(opts, CONF_PRESETS, DEFAULT_PRESETS)
    IN  [temp_home     |-> DictGet(DictGet(cat, PRESET_HOME, EmptyDict), "temperature", 21),
         temp_away     |-> DictGet(DictGet(cat, PRESET_AWAY, EmptyDict), "temperature", 18),
         temp_sleep    |-> DictGet(DictGet(cat, PRESET_SLEEP, EmptyDict), "temperature", 19),
         temp_vacation |-> DictGet(DictGet(cat, PRESET_VACATION, EmptyDict), "temperature", 16)]

\* ClimateSchedulerOptionsFlow.async_step_init(user_input): with the filled
\* form an entry whose data is the form as it was filled, without it the form
StepInit(opts, user_input) ==
    IF user_input # None
    THEN [type |-> "create_entry", data |-> user_input[1]]
    ELSE [type |-> "form", data |-> OptionsForm(opts)]

\* the forms the user submits
OptionsInputs ==
    { None,
      Some([temp_home |-> 22, temp_away |-> 18, temp_sleep |-> 19, temp_vacation |-> 16]) }

\* the options flow; the host stores the data of a created entry as the
\* options of the entry, the running entity keeps what it read
AsyncStepInit(user_input) ==
    /\ LET r == StepInit(options, user_input)
       IN  options' = IF r.type = "create_entry" THEN r.data ELSE options
    /\ active_preset' = None
    /\ attrs' = None
    /\ calls' = <<>>
    /\ apply_error' = FALSE
    /\ last_op' = "options_flow"
    /\ UNCHANGED <<schedules, presets, climate_entity, entity, inflight, base,
                   listening, now, uptime, manual_at, manual_rearmed>>

\* async_will_remove_from_hass, then async_setup_entry constructs a new
\* entity from the entry; the host keeps the state of the removed one
Restart ==
    /\ listening
    /\ inflight = NoTasks
    /\ base' = Some([self |-> Self, ticked |-> FALSE, preset |-> None])
    /\ schedules' = EntrySchedules(options)
    /\ presets' = EntryPresets(options)
    /\ Commit(InitialSelf)
    /\ listening' = FALSE
    /\ active_preset' = None
    /\ attrs' = None
    /\ calls' = <<>>
    /\ apply_error' = FALSE
    /\ last_op' = "restart"
    /\ UNCHANGED <<options, climate_entity, inflight, now, uptime, manual_at,
                   manual_rearmed>>

\* async_get_last_state() returns the state kept of the removed entity
AddedRestoreKept(task) ==
    /\ base # None
    /\ AddedRestore(task, Snapshot(base[1].self))

NextRestart ==
    \/ AsyncAddedToHass
    \/ \E task \in BagToSet(inflight) : AddedResume(task)
    \/ \E task \in BagToSet(inflight) : \E last_state \in LastStates : AddedRestore(task, last_state)
    \/ \E task \in BagToSet(inflight) : AddedRestoreKept(task)
    \/ AsyncCheckSchedule
    \/ \E preset \in PresetInputs : AsyncSetPresetMode(preset)
    \/ \E task \in BagToSet(inflight) : \E raised \in BOOLEAN : Resume(task, raised)
    \/ \E t \in ClockTargets(now) : Advance(t)
    \/ \E user_input \in OptionsInputs : AsyncStepInit(user_input)
    \/ Restart

SpecRestart == Init /\ [][NextRestart]_vars

\* the preset of the day's latest started slot, the last stored among equals
ScheduledPreset(t) ==
    LET table   == TableOfDay(t)
        started == Started(table, MinuteOfDay(t))
    IN  IF started = {} THEN None
        ELSE LET i == CHOOSE i \in started :
                        \A j \in started :
                          \/ SlotMinute(table[j]) < SlotMinute(table[i])
                          \/ (SlotMinute(table[j]) = SlotMinute(table[i]) /\ j <= i)
             IN  Some(table[i].preset)

\* C19: the entity set up by a restart has no override record when its first
\* check runs: that check makes a supported scheduled preset other than the
\* restored one current, and the record afterwards is unset or the time of
\* the restart, whatever the user did before the restart.
C19_OverrideLostOnRestart ==
    [][(\E task \in BagToSet(inflight) : AddedRestoreKept(task)) =>
         LET restored  == RestoreState(Self, Snapshot(base[1].self))
             scheduled == ScheduledPreset(now)
         IN  /\ restored.last_preset_change = None
             /\ last_preset_change' \in {None, Some(now)}
             /\ (/\ scheduled # None
                 /\ scheduled[1] \in attr_preset_modes
                 /\ scheduled[1] # restored.preset_mode)
                => /\ preset_mode' = scheduled[1]
                   /\ last_preset_change' = Some(now)]_vars

\* the first check after a restart less than 30 minutes after the user's
\* call has replaced the user's preset, restored from the kept state, by the
\* scheduled one
C19_Witness ==
    /\ last_op = "added_to_hass"
    /\ base # None
    /\ base[1].self.last_preset_change = manual_at
    /\ base[1].self.preset_mode # preset_mode
    /\ manual_at # None
    /\ now - manual_at[1] < OVERRIDE_MINUTES
    /\ now > manual_at[1]
    /\ ScheduledPreset(manual_at[1]) = ScheduledPreset(now)
    /\ Some(preset_mode) = ScheduledPreset(now)
    /\ last_preset_change = Some(now)
    /\ calls # <<>>

\* C19 as first stated: the startup check replaces the restored preset by
\* the scheduled one whenever the two differ
C19_ReplacedWheneverDifferent ==
    [][(\E task \in BagToSet(inflight) : AddedRestoreKept(task)) =>
         LET restored  == RestoreState(Self, Snapshot(base[1].self))
             scheduled == ScheduledPreset(now)
         IN  (scheduled # None /\ scheduled[1] # restored.preset_mode)
                => preset_mode' = scheduled[1]]_vars

----------------------------------------------------------------------------
(* The announced transition against the preset resolved when it arrives *)

\* the slot _get_next_schedule and _get_next_temperature stop at
NextSlot(scheds, t) == FirstLater(SortedSlots(DaySchedule(scheds, t)), CurrentTime(t))

\* the moment of the same day at which a slot starts
SlotMoment(slot, t) == t - CurrentTime(t) + Strptime(SlotKey(slot))

\* C20: when the attributes announce a next transition, the slot it comes
\* from has the preset that the check resolves at that slot's time on the
\* same day, and next_temperature is the catalog temperature of that preset.
C20_NextAgreesWithResolved ==
    (last_op = "extra_state_attributes" /\ attrs[1].next_schedule # None) =>
        LET slot == NextSlot(schedules, now)[1]
        IN  /\ attrs[1].next_schedule = Some(slot.time)
            /\ ResolveActivePreset(schedules, SlotMoment(slot, now)) = Some(slot.preset)
            /\ attrs[1].next_temperature = CatalogTemperature(presets, Some(slot.preset))

----------------------------------------------------------------------------
(* The timer keeps calling: the override lapses *)

\* the entities of the liveness runs: the schedule resolves to one preset
\* for the whole run
LiveConfigurations ==
    { <<DEFAULT_SCHEDULES, DEFAULT_PRESETS, Some("climate.thermostat"), At(1, 9, 0)>>,
      <<DEFAULT_SCHEDULES, SparsePresets, Some("climate.thermostat"), At(1, 9, 0)>>,
      <<UnorderedSchedules, DEFAULT_PRESETS, None, At(1, 8, 0)>> }

InitLive ==
    /\ \E c \in LiveConfigurations :
          /\ options = [schedules |-> c[1], presets |-> c[2]]
          /\ schedules = c[1]
          /\ presets = c[2]
          /\ climate_entity = c[3]
          /\ now = c[4]
    /\ target_temperature = None
    /\ hvac_mode = HVAC_HEAT_COOL
    /\ preset_mode = PRESET_HOME
    /\ last_preset_change = None
    /\ listening = FALSE
    /\ uptime = 0
    /\ active_preset = None
    /\ attrs = None
    /\ calls = <<>>
    /\ apply_error = FALSE
    /\ last_op = "init"
    /\ manual_at = None
    /\ manual_rearmed = FALSE
    /\ inflight = NoTasks
    /\ base = None

\* async_track_time_change(minute=range(0, 60, 5), second=0): the clock has
\* reached a timer minute and the callback has not run yet
TimerPending == listening /\ TimerFires(now) /\ last_op = "clock"

\* the callback runs at second 0, before anything else of that minute
LiveTick == TimerPending /\ AsyncCheckSchedule

\* the user has a preset accepted once in a minute at most
LiveSetPresetMode(preset) ==
    /\ ~TimerPending
    /\ manual_at # Some(now)
    /\ AsyncSetPresetMode(preset)

LiveAdvance(t) == ~TimerPending /\ Advance(t)

NextLive ==
    \/ AsyncAddedToHass
    \/ \E task \in BagToSet(inflight) : AddedResume(task)
    \/ \E task \in BagToSet(inflight) : \E last_state \in LastStates : AddedRestore(task, last_state)
    \/ LiveTick
    \/ \E preset \in PresetInputs : LiveSetPresetMode(preset)
    \/ \E task \in BagToSet(inflight) : \E raised \in BOOLEAN : Resume(task, raised)
    \/ \E t \in ClockTargets(now) : LiveAdvance(t)

\* the LiveTick steps, told by the step they record: no other step of
\* NextLive leaves a state with the timer pending
TimerCalls == TimerPending /\ last_op' = "check_schedule"

\* the Resume steps, told by what they do to the suspended handlers
AwaitReturns ==
    \E task \in BagToSet(inflight) : \E raised \in BOOLEAN :
        /\ task.pc \in {"await_temperature", "await_hvac"}
        /\ inflight' = Moved(task, Dispatch(task.pc, raised).pc)

\* time passes, the host calls the registered callback at every timer
\* minute the clock reaches, and an awaited service call returns
SpecLive ==
    /\ InitLive
    /\ [][NextLive]_vars
    /\ WF_vars(\E t \in ClockTargets(now) : LiveAdvance(t))
    /\ WF_last_op(TimerCalls)
    /\ WF_inflight(AwaitReturns)

\* the longest wait for the first timer minute at which 30 minutes have passed
LapseMinutes == OVERRIDE_MINUTES + TICK_MINUTES - 1

\* the uptime after which the user issues no command: the latest from which
\* the override lapses within the run
ManualBy == MaxUptime - LapseMinutes

\* the schedule resolves to one supported preset from t until the override
\* has lapsed
ResolvesToOne(t) ==
    /\ ScheduledPreset(t) # None
    /\ ScheduledPreset(t)[1] \in attr_preset_modes
    /\ \A d \in 0..LapseMinutes : ScheduledPreset(t + d) = ScheduledPreset(t)

\* a set_preset_mode call was accepted after uptime ManualBy
LateManual == manual_at # None /\ manual_at[1] - (now - uptime) > ManualBy

\* C16: once the user has stopped issuing commands and the schedule keeps
\* resolving to one supported preset P, the timer's checks make P the current
\* preset: from a state up to uptime ManualBy of a running entity whose schedule
\* resolves to P for the next 34 minutes, a state in which preset_mode is
\* the scheduled preset follows, unless the user set a preset after uptime
\* ManualBy.
C16_SuppressionLapses ==
    (listening /\ uptime <= ManualBy /\ ResolvesToOne(now))
        ~> (Some(preset_mode) = ScheduledPreset(now) \/ LateManual)

\* a check made the scheduled preset current 30 minutes or more after the
\* user's call, with no call by the user after uptime ManualBy
C16_Witness ==
    /\ last_op = "check_schedule"
    /\ manual_at # None
    /\ ~LateManual
    /\ now - manual_at[1] >= OVERRIDE_MINUTES
    /\ ScheduledPreset(manual_at[1]) = Some(preset_mode)
    /\ ScheduledPreset(now) = Some(preset_mode)
    /\ last_preset_change = Some(now)
    /\ calls # <<>>

----------------------------------------------------------------------------
(* The timer callback and a user's async_set_preset_mode on one event loop: *)
(* a handler runs until it awaits hass.services.async_call, the other may   *)
(* run while it is suspended                                                *)

\* the fields when the first handler of this minute began
BaseSelf == IF base = None THEN Self ELSE base[1].self

\* the timer callback of this minute has been called
Ticked == base # None /\ base[1].ticked

\* the preset of the user's call of this minute, when there was one
Called == IF base = None THEN None ELSE base[1].preset

\* the timer callback of this minute
TickBegin ==
    /\ ~Ticked
    /\ CheckScheduleBegins
    /\ base' = Some([self |-> BaseSelf, ticked |-> TRUE, preset |-> Called])

\* the user's async_set_preset_mode of this minute
ManualBegin(preset) ==
    /\ Called = None
    /\ SetPresetModeBegins(preset)
    /\ base' = Some([self |-> BaseSelf, ticked |-> Ticked, preset |-> Some(preset)])

InterleaveAdvance(t) == Advances(t) /\ base' = None

NextInterleave ==
    \/ AsyncAddedToHass
    \/ \E task \in BagToSet(inflight) : AddedResume(task)
    \/ \E task \in BagToSet(inflight) : \E last_state \in LastStates : AddedRestore(task, last_state)
    \/ TickBegin
    \/ \E preset \in PresetInputs : ManualBegin(preset)
    \/ \E task \in BagToSet(inflight) : \E raised \in BOOLEAN : Resume(task, raised)
    \/ \E t \in ClockTargets(now) : InterleaveAdvance(t)

SpecInterleave == Init /\ [][NextInterleave]_vars

\* the fields after the two handlers of this minute ran one after the other
SerialTickFirst ==
    SetPresetMode(CheckSchedule(BaseSelf, now).self, Called[1], now).self

SerialManualFirst ==
    CheckSchedule(SetPresetMode(BaseSelf, Called[1], now).self, now).self

\* the callback and the user's call of this minute have both returned
BothReturned ==
    /\ Ticked
    /\ Called # None
    /\ inflight = NoTasks

\* C17: however the timer callback and a user's async_set_preset_mode
\* interleave at their awaits, (1) the callback's check and assignments are
\* one step, which leaves preset_mode alone less than 30 minutes after a
\* set_preset_mode call of the user was accepted, and (2) when both have
\* returned the entity's fields are those of one of the two serial orders.
C17_TickAtomicAndSerial ==
    /\ [][(/\ TickBegin
           /\ manual_at # None
           /\ now - manual_at[1] < OVERRIDE_MINUTES)
          => preset_mode' = preset_mode]_vars
    /\ [](BothReturned => Self \in {SerialTickFirst, SerialManualFirst})

\* the callback ran while the user's call was suspended at its first await,
\* the schedule resolved to another supported preset, and the user's preset
\* stayed
C17_Witness ==
    /\ inflight = SetToBag({Task("set_preset_mode", "await_temperature")})
    /\ last_op = "check_schedule"
    /\ Ticked
    /\ Called = Some(preset_mode)
    /\ BaseSelf.preset_mode # preset_mode
    /\ active_preset # None
    /\ active_preset[1] \in attr_preset_modes
    /\ active_preset[1] # preset_mode
    /\ manual_at = Some(now)
    /\ calls = <<>>

====
